---- MODULE Spec2Model ----
(***************************************************************************)
(* Model of vnpy/trader/history_uni_get.py (query_history_uni and the      *)
(* memoised _auto_cache), of the parts of database.py and datafeed.py it   *)
(* calls (get_database, get_datafeed, the *_uni dispatchers), and of the   *)
(* adjustment-factor mapping of _dividend_tool.py.                          *)
(*                                                                         *)
(* Python values are encoded as follows.                                    *)
(*   Optional[datetime]  the empty tuple << >> is None, <<t>> is the       *)
(*                       datetime t; t counts timedelta.resolution units.   *)
(*   cut                 a record [type, name, n]: type is the Python type *)
(*                       of the argument, name its value when it is a str, *)
(*                       n its value when it is a datetime or a timedelta.  *)
(*   enum members        strings "Interval.X", "ExtraInterval.X",          *)
(*                       "Exchange.X"; a symbol is a plain string.  The    *)
(*                       three kinds of value never compare equal.          *)
(***************************************************************************)
EXTENDS Integers, Sequences, FiniteSets, TLC

VARIABLES
    dbEnv,        \* what import_module finds for the configured database driver
    feedEnv,      \* SETTINGS["datafeed.name"] and whether its module imports
    database,     \* database.py module global `database`
    datafeed,     \* datafeed.py module global `datafeed`
    coverage,     \* the store's overview table: key -> Optional[end]
    cache,        \* the lru_cache of _auto_cache: argument tuple -> result
    th,           \* per thread: the frame of its running call
    dr,           \* the frame of a call of make_timetags_back_dr
    fb            \* the frame of a call of make_front_back_dr

vars == <<dbEnv, feedEnv, database, datafeed, coverage, cache, th, dr, fb>>

-----------------------------------------------------------------------------
(* Bounds of the model *)

MaxT == 2          \* request timestamps range over 0..MaxT
MaxRecs == 1       \* a collaborator returns at most MaxRecs records
NThreads == 2      \* threads of the process
MaxN == 2          \* make_timetags_back_dr is given at most MaxN timestamps
MaxM == 2          \* and at most MaxM events

(* Program constants *)

Resolution == 1    \* timedelta.resolution, the unit of time of the model
OneDay == 10       \* timedelta(days=1), scaled to the model's unit of time
F32Exact == 16777216   \* 2^24: np.float32 holds every integer up to it

-----------------------------------------------------------------------------
(* Values *)

None == << >>
Some(t) == <<t>>
IsNone(x) == x = << >>
Val(x) == x[1]

Threads == 1..NThreads
Times == 0..MaxT

Symbols == {"rb2410"}
Exchanges == {"Exchange.SHFE"}
BarIntervals == {"Interval.MINUTE", "Interval.MINUTE_5", "Interval.HOUR",
                 "Interval.DAILY", "Interval.WEEKLY"}
\* the request kinds the model enumerates; "Interval.OTHER" stands for a member
\* none of the dispatchers lists
Intervals == {"Interval.TICK", "Interval.DAILY", "ExtraInterval.Dividend",
              "ExtraInterval.TradeDate", "Interval.OTHER"}
Dividends == {"Dividend.NONE", "Dividend.BACK"}

Records == {"r1", "r2"}
SeqsUpTo(S, n) == UNION {[1..k -> S] : k \in 0..n}
RecSeqs == SeqsUpTo(Records, MaxRecs)

HistoryRequest(symbol, exchange, start, end, interval, dividend) ==
    [symbol |-> symbol, exchange |-> exchange, start |-> start, end |-> end,
     interval |-> interval, dividend |-> dividend]

\* the requests a caller makes: both bounds are datetimes, start <= end
Ranges == {ab \in Times \X Times : ab[1] <= ab[2]}
Requests ==
    {HistoryRequest(s, e, Some(ab[1]), Some(ab[2]), i, d) :
        s \in Symbols, e \in Exchanges, ab \in Ranges,
        i \in Intervals, d \in Dividends}

CutStr(s) == [type |-> "str", name |-> s, n |-> 0]
CutDatetime(t) == [type |-> "datetime", name |-> "", n |-> t]
CutTimedelta(d) == [type |-> "timedelta", name |-> "", n |-> d]
CutNone == [type |-> "NoneType", name |-> "", n |-> 0]

ExplicitCuts == {CutDatetime(t) : t \in -1..(MaxT + 1)}
OffsetCuts == {CutTimedelta(d) : d \in -1..(MaxT + 1)}
FixedCuts == {CutStr("database"), CutStr("datafeed"), CutNone}
AutoCut == CutStr("auto")

-----------------------------------------------------------------------------
(* datafeed.py *)

\* get_datafeed: the module global once set, else a BaseDatafeed when no name is
\* configured or the module does not import, else the module's Datafeed
get_datafeed ==
    IF datafeed # "None" THEN [obj |-> datafeed, printed |-> {}]
    ELSE IF feedEnv = "no_name"
         THEN [obj |-> "BaseDatafeed", printed |-> {"datafeed: not configured"}]
    ELSE IF feedEnv = "module"
         THEN [obj |-> "Datafeed", printed |-> {}]
    ELSE [obj |-> "BaseDatafeed", printed |-> {"datafeed: cannot load module"}]

\* BaseDatafeed.query_history_uni: the operation a request kind is sent to
FeedDispatch(interval) ==
    IF interval = "Interval.TICK" THEN "query_tick_history"
    ELSE IF interval \in BarIntervals THEN "query_bar_history"
    ELSE IF interval = "ExtraInterval.Dividend" THEN "query_dividend_history"
    ELSE IF interval = "ExtraInterval.TradeDate" THEN "query_tradedate_history"
    ELSE "AssertionError"

\* a base datafeed that answers with a record
BaseFeedOneRecord == <<"r1">>

\* BaseDatafeed.query_*_history: a diagnostic through output, and no records
BaseFeedRecords == << >>
BaseFeedOutput(op) == {"datafeed: " \o op \o " failed, not configured"}

\* the record lists a feed object can answer a query with
FeedAnswers(obj) == IF obj = "BaseDatafeed" THEN {BaseFeedRecords} ELSE RecSeqs
FeedOutput(obj, op) == IF obj = "BaseDatafeed" THEN BaseFeedOutput(op) ELSE {}

-----------------------------------------------------------------------------
(* database.py *)

\* get_database: the module global once set, else the configured driver, else
\* the SQLite driver with a message; ModuleNotFoundError when neither imports
get_database ==
    IF database # "None"
    THEN [obj |-> database, raised |-> FALSE, printed |-> {}]
    ELSE IF dbEnv = "driver"
         THEN [obj |-> "Database", raised |-> FALSE, printed |-> {}]
    ELSE IF dbEnv = "sqlite_fallback"
         THEN [obj |-> "SqliteDatabase", raised |-> FALSE,
               printed |-> {"database: driver not found, using SQLite"}]
    ELSE [obj |-> "None", raised |-> TRUE,
          printed |-> {"database: driver not found, using SQLite"}]

\* a dispatcher that sends the bars to the tick operation
DbDispatchBarsAsTicks(interval) ==
    IF interval = "Interval.TICK" \/ interval \in BarIntervals THEN "load_tick_data"
    ELSE IF interval = "ExtraInterval.Dividend" THEN "load_dividend_data"
    ELSE IF interval = "ExtraInterval.TradeDate" THEN "load_trade_date_data"
    ELSE "AssertionError"

\* BaseDatabase.query_history_uni: the operation a request kind is sent to
DbDispatch(interval) ==
    IF interval = "Interval.TICK" THEN "load_tick_data"
    ELSE IF interval \in BarIntervals THEN "load_bar_data"
    ELSE IF interval = "ExtraInterval.Dividend" THEN "load_dividend_data"
    ELSE IF interval = "ExtraInterval.TradeDate" THEN "load_trade_date_data"
    ELSE "AssertionError"

\* BaseDatabase.query_overview_uni: the operation an interval is sent to
OverviewDispatch(interval) ==
    IF interval = "Interval.TICK" THEN "get_tick_overview"
    ELSE IF interval \in BarIntervals THEN "get_bar_overview"
    ELSE IF interval = "ExtraInterval.Dividend" THEN "get_dividend_overview"
    ELSE IF interval = "ExtraInterval.TradeDate" THEN "get_trade_date_overview"
    ELSE "AssertionError"

\* the row of the overview table an overview operation reads:
\* get_trade_date_overview takes the exchange alone
OverviewKey(symbol, exchange, interval) ==
    IF interval = "ExtraInterval.TradeDate"
    THEN <<"*", exchange, interval>>
    ELSE <<symbol, exchange, interval>>

OverviewKeys ==
    {OverviewKey(s, e, i) : s \in Symbols, e \in Exchanges,
                            i \in Intervals \ {"Interval.OTHER"}}

\* BarOverview and its kin: only `end` is read
Overview(end) == [end |-> end]

-----------------------------------------------------------------------------
(* history_uni_get.py *)

NoReq == HistoryRequest("", "", None, None, "", "")

\* the frame of a call: the locals of query_history_uni / _auto_cache, the
\* calls it has made to the collaborators, what it printed and how it ended
IdleFrame ==
    [pc |-> "idle", caller |-> "", req |-> NoReq, arg_cut |-> CutNone,
     cut |-> CutNone, key |-> << >>, hit |-> FALSE, r |-> None,
     start_dt |-> None, mid_dt |-> None, end_dt |-> None, out |-> << >>,
     ov_calls |-> << >>, db_calls |-> << >>, feed_calls |-> << >>,
     printed |-> {}, status |-> "", err |-> "", result |-> << >>]

Raise(f, e) == [f EXCEPT !.pc = "done", !.status = "raised", !.err = e]

\* a wrapper that finds nothing it has stored
CacheNeverHit(key) == FALSE

\* a store that keeps no None
CachePutUnlessNone(c, key, value) ==
    IF IsNone(value) THEN c
    ELSE [k \in DOMAIN c \cup {key} |-> IF k = key THEN value ELSE c[k]]

\* a store that keeps the entry a key already has
CachePutIfAbsent(c, key, value) ==
    IF key \in DOMAIN c THEN c
    ELSE [k \in DOMAIN c \cup {key} |-> IF k = key THEN value ELSE c[k]]

\* lru_cache(None, typed=True): the wrapper's lookup and its store
CacheHit(key) == key \in DOMAIN cache
CachePut(c, key, value) ==
    [k \in DOMAIN c \cup {key} |-> IF k = key THEN value ELSE c[k]]

\* the arguments in the order of _auto_cache's parameters
AutoArgsInOrder(req) == <<req.symbol, req.exchange, req.interval>>

\* line 45: the arguments _auto_cache is called with, in the order written
AutoArgs(req) == <<req.interval, req.symbol, req.exchange>>

\* lines 46-50: the cached or computed r replaces cut
AfterAuto(f, r) ==
    [f EXCEPT !.r = r,
              !.cut = IF IsNone(r) THEN CutStr("datafeed") ELSE CutDatetime(Val(r)),
              !.pc = "split"]

\* the return of _auto_cache to whoever called it
AutoReturn(f, r) ==
    IF f.caller = "uni" THEN AfterAuto(f, r)
    ELSE [f EXCEPT !.r = r, !.pc = "done", !.status = "returned"]

\* the assertion of line 77 left unchecked
MidUnchecked(start_dt, mid_dt, end_dt) == TRUE

\* line 77: assert start_dt <= mid_dt <= end_dt
MidInRange(start_dt, mid_dt, end_dt) ==
    Val(start_dt) <= Val(mid_dt) /\ Val(mid_dt) <= Val(end_dt)

\* the timedelta branch with the offset added to req.end
SplitTimedeltaAdded(req, cut) ==
    LET start_dt == req.start
        mid_dt == Some(Val(req.end) + cut.n)
        end_dt == req.end
    IN  IF Val(mid_dt) <= Val(start_dt)
        THEN [start_dt |-> None, mid_dt |-> None, end_dt |-> end_dt, err |-> ""]
        ELSE IF Val(mid_dt) >= Val(end_dt)
        THEN [start_dt |-> start_dt, mid_dt |-> None, end_dt |-> None, err |-> ""]
        ELSE [start_dt |-> start_dt, mid_dt |-> mid_dt, end_dt |-> end_dt,
              err |-> ""]

\* lines 62-71: the timedelta branch, assignment by assignment
SplitTimedelta(req, cut) ==
    LET start_dt == req.start
        mid_dt == Some(Val(req.end) - cut.n)
        end_dt == req.end
    IN  IF Val(mid_dt) <= Val(start_dt)
        THEN LET start_dt1 == None          \* line 67
                 mid_dt1 == start_dt1       \* line 68
             IN  [start_dt |-> start_dt1, mid_dt |-> mid_dt1, end_dt |-> end_dt,
                  err |-> ""]
        ELSE IF Val(mid_dt) >= Val(end_dt)
        THEN LET end_dt1 == None            \* line 70
                 mid_dt1 == end_dt1         \* line 71
             IN  [start_dt |-> start_dt, mid_dt |-> mid_dt1, end_dt |-> end_dt1,
                  err |-> ""]
        ELSE [start_dt |-> start_dt, mid_dt |-> mid_dt, end_dt |-> end_dt,
              err |-> ""]

\* lines 73-81: the datetime branch
SplitDatetime(req, cut) ==
    LET start_dt == req.start
        mid_dt == Some(cut.n)
        end_dt == req.end
    IN  IF ~MidInRange(start_dt, mid_dt, end_dt)
        THEN [start_dt |-> start_dt, mid_dt |-> mid_dt, end_dt |-> end_dt,
              err |-> "AssertionError: mid_dt"]
        ELSE IF mid_dt = start_dt
        THEN [start_dt |-> None, mid_dt |-> mid_dt, end_dt |-> end_dt, err |-> ""]
        ELSE IF mid_dt = end_dt
        THEN [start_dt |-> start_dt, mid_dt |-> mid_dt, end_dt |-> None, err |-> ""]
        ELSE [start_dt |-> start_dt, mid_dt |-> mid_dt, end_dt |-> end_dt, err |-> ""]

\* the split with the ranges of 'database' and 'datafeed' exchanged
SplitRangeSwapped(req, cut) ==
    IF cut = CutStr("database")
    THEN [start_dt |-> None, mid_dt |-> req.start, end_dt |-> req.end, err |-> ""]
    ELSE IF cut = CutStr("datafeed")
    THEN [start_dt |-> req.start, mid_dt |-> req.end, end_dt |-> None, err |-> ""]
    ELSE IF cut.type = "timedelta" THEN SplitTimedelta(req, cut)
    ELSE IF cut.type = "datetime" THEN SplitDatetime(req, cut)
    ELSE [start_dt |-> None, mid_dt |-> None, end_dt |-> None,
          err |-> "AssertionError: cut"]

\* lines 52-84: start_dt, mid_dt, end_dt of a request under a cut
SplitRange(req, cut) ==
    IF cut = CutStr("database")
    THEN [start_dt |-> req.start, mid_dt |-> req.end, end_dt |-> None, err |-> ""]
    ELSE IF cut = CutStr("datafeed")
    THEN [start_dt |-> None, mid_dt |-> req.start, end_dt |-> req.end, err |-> ""]
    ELSE IF cut.type = "timedelta" THEN SplitTimedelta(req, cut)
    ELSE IF cut.type = "datetime" THEN SplitDatetime(req, cut)
    ELSE [start_dt |-> None, mid_dt |-> None, end_dt |-> None,
          err |-> "AssertionError: cut"]

\* the lower bound of the feed query without the step past mid_dt
FeedLowerNoNudge(start_dt, mid_dt) == mid_dt

\* line 97: the lower bound of the feed query
FeedLower(start_dt, mid_dt) ==
    IF IsNone(start_dt) THEN mid_dt ELSE Some(Val(mid_dt) + Resolution)

\* the sub-request without the request's dividend mode
SubRequestNoDividend(req, start, end) ==
    HistoryRequest(req.symbol, req.exchange, start, end, req.interval,
                   "Dividend.NONE")

\* lines 88-91 and 99-102: the request handed to a collaborator
SubRequest(req, start, end) ==
    HistoryRequest(req.symbol, req.exchange, start, end, req.interval,
                   req.dividend)

\* the new records put in front of the ones already there
ExtendInFront(out, o) == o \o out

\* lines 93 and 104: out.extend(o)
Extend(out, o) == out \o o

-----------------------------------------------------------------------------
(* _dividend_tool.py                                                        *)
(* A factor is a float; the model's factors are floats with integer values, *)
(* so that float64 holds each exactly and float32 rounds those above 2^24.   *)
(* An element of an np.empty array not yet written is << >>, a written one   *)
(* <<value>>.  Timestamps are of one dtype.                                  *)

\* float64 -> float32, round to nearest, ties to even; for 0 <= x < 2^25
ToFloat32(x) ==
    IF x <= F32Exact THEN x
    ELSE LET q == x \div 2
         IN  IF x % 2 = 0 THEN x
             ELSE IF q % 2 = 0 THEN 2 * q ELSE 2 * (q + 1)

\* the scan with t > t2 for t >= t2
RECURSIVE ScanStrict(_, _, _, _, _)
ScanStrict(t, dr_timestamp, dr_back_dr, ti, acc) ==
    IF ti > Len(dr_timestamp) THEN acc
    ELSE IF t > dr_timestamp[ti]
         THEN ScanStrict(t, dr_timestamp, dr_back_dr, ti + 1, dr_back_dr[ti])
         ELSE acc

\* lines 43-47: the scan of the events from event ti on, acc the factor so far
RECURSIVE Scan(_, _, _, _, _)
Scan(t, dr_timestamp, dr_back_dr, ti, acc) ==
    IF ti > Len(dr_timestamp) THEN acc
    ELSE IF t >= dr_timestamp[ti]
         THEN Scan(t, dr_timestamp, dr_back_dr, ti + 1, dr_back_dr[ti])
         ELSE acc

\* lines 41-49: what iteration i stores in out_dr_list[i], a float32 array
BackDrAt(t, dr_timestamp, dr_back_dr) ==
    ToFloat32(Scan(t, dr_timestamp, dr_back_dr, 1, 1))

IdleDr ==
    [pc |-> "idle", timetags |-> << >>, timestamp_dr |-> << >>, back_dr |-> << >>,
     dr_list |-> << >>, result |-> << >>]

\* lines 62-72: the output is allocated; with no event it is filled with 1
DrBegin ==
    /\ dr.pc = "called"
    /\ dr' = IF Len(dr.timestamp_dr) > 0
             THEN [dr EXCEPT !.dr_list = [i \in 1..Len(dr.timetags) |-> None],
                             !.pc = "prange"]
             ELSE [dr EXCEPT !.dr_list = [i \in 1..Len(dr.timetags) |-> Some(ToFloat32(1))],
                             !.pc = "return"]
    /\ UNCHANGED <<fb, dbEnv, feedEnv, database, datafeed, coverage, cache, th>>

\* an iteration whose dr starts from what an earlier iteration left in it
DrIterationCarried(i) ==
    /\ dr.pc = "prange"
    /\ i \in DOMAIN dr.dr_list
    /\ IsNone(dr.dr_list[i])
    /\ \E acc \in {1} \cup {Val(dr.dr_list[j]) :
                               j \in {k \in DOMAIN dr.dr_list : ~IsNone(dr.dr_list[k])}} :
           dr' = [dr EXCEPT !.dr_list[i] =
                     Some(ToFloat32(Scan(dr.timetags[i], dr.timestamp_dr,
                                         dr.back_dr, 1, acc)))]
    /\ UNCHANGED <<fb, dbEnv, feedEnv, database, datafeed, coverage, cache, th>>

\* lines 40-49: one iteration of the prange, in whatever order the workers take
DrIteration(i) ==
    /\ dr.pc = "prange"
    /\ i \in DOMAIN dr.dr_list
    /\ IsNone(dr.dr_list[i])
    /\ dr' = [dr EXCEPT !.dr_list[i] =
                 Some(BackDrAt(dr.timetags[i], dr.timestamp_dr, dr.back_dr))]
    /\ UNCHANGED <<fb, dbEnv, feedEnv, database, datafeed, coverage, cache, th>>

\* the prange is over once every iteration has run
DrJoin ==
    /\ dr.pc = "prange"
    /\ \A i \in DOMAIN dr.dr_list : ~IsNone(dr.dr_list[i])
    /\ dr' = [dr EXCEPT !.pc = "return"]
    /\ UNCHANGED <<fb, dbEnv, feedEnv, database, datafeed, coverage, cache, th>>

\* line 74
DrReturn ==
    /\ dr.pc = "return"
    /\ dr' = [dr EXCEPT !.pc = "done",
                        !.result = [i \in DOMAIN dr.dr_list |-> Val(dr.dr_list[i])]]
    /\ UNCHANGED <<fb, dbEnv, feedEnv, database, datafeed, coverage, cache, th>>

-----------------------------------------------------------------------------
(* _dividend_tool.py, make_front_back_dr                                     *)
(* The ratios are powers of two, 2^e for an integer e, which float64 and     *)
(* float32 hold exactly and multiply and divide exactly until the exponent   *)
(* leaves the type's range: a float is then a finite 2^e, an infinity, a     *)
(* zero or a NaN.                                                            *)

Fin(e) == [k |-> "fin", e |-> e]
Inf == [k |-> "inf", e |-> 0]
Zero == [k |-> "zero", e |-> 0]
NaN == [k |-> "nan", e |-> 0]

\* the largest exponent of a finite value, and the exponent of the least
\* subnormal, of an array's element type
MaxExp(dtype) == IF dtype = "float32" THEN 127 ELSE 1023
MinExp(dtype) == IF dtype = "float32" THEN -149 ELSE -1074

\* 2^e rounded into the type: past the largest finite value an infinity, at
\* most half the least subnormal a zero
RoundExp(dtype, e) ==
    IF e > MaxExp(dtype) THEN Inf
    ELSE IF e < MinExp(dtype) THEN Zero
    ELSE Fin(e)

\* a product that never leaves the range of the type
FMulUnbounded(dtype, a, b) ==
    IF a.k = "fin" /\ b.k = "fin" THEN Fin(a.e + b.e) ELSE NaN

\* a * b of two elements of an array of the type
FMul(dtype, a, b) ==
    IF a.k = "nan" \/ b.k = "nan" THEN NaN
    ELSE IF a.k = "fin" /\ b.k = "fin" THEN RoundExp(dtype, a.e + b.e)
    ELSE IF {a.k, b.k} = {"inf", "zero"} THEN NaN
    ELSE IF "inf" \in {a.k, b.k} THEN Inf
    ELSE Zero

\* a / b of two elements of an array of the type; numpy warns and goes on
FDiv(dtype, a, b) ==
    IF a.k = "nan" \/ b.k = "nan" THEN NaN
    ELSE IF a.k = "fin" /\ b.k = "fin" THEN RoundExp(dtype, a.e - b.e)
    ELSE IF a.k = b.k THEN NaN
    ELSE IF a.k = "inf" \/ b.k = "zero" THEN Inf
    ELSE Zero

\* line 18: np.cumprod, the running product from the left
RECURSIVE Cumprod(_, _)
Cumprod(dtype, a) ==
    IF Len(a) <= 1 THEN a
    ELSE LET front == Cumprod(dtype, SubSeq(a, 1, Len(a) - 1))
         IN  Append(front, FMul(dtype, front[Len(front)], a[Len(a)]))

IdleFb ==
    [pc |-> "idle", type |-> "", dtype |-> "", dr |-> << >>, back_dr |-> << >>,
     front_dr |-> << >>, status |-> "", result |-> << >>]

\* lines 10-12: the argument is a list or an array; a list becomes a float64
\* array
FbConvert ==
    /\ fb.pc = "called"
    /\ fb' = IF fb.type \notin {"list", "ndarray"}
             THEN [fb EXCEPT !.pc = "done", !.status = "raised"]
             ELSE IF fb.type = "list"
             THEN [fb EXCEPT !.dtype = "float64", !.pc = "back"]
             ELSE [fb EXCEPT !.pc = "back"]
    /\ UNCHANGED <<dr, dbEnv, feedEnv, database, datafeed, coverage, cache, th>>

\* lines 14-18: the back factors; of no ratio, the one empty float64 array
\* that is the front factors too
FbBack ==
    /\ fb.pc = "back"
    /\ fb' = IF Len(fb.dr) = 0
             THEN [fb EXCEPT !.back_dr = << >>, !.front_dr = << >>, !.pc = "return"]
             ELSE [fb EXCEPT !.back_dr = Cumprod(fb.dtype, fb.dr), !.pc = "front"]
    /\ UNCHANGED <<dr, dbEnv, feedEnv, database, datafeed, coverage, cache, th>>

\* line 20: front_dr = back_dr / back_dr[-1]
FbFront ==
    /\ fb.pc = "front"
    /\ fb' = [fb EXCEPT !.front_dr =
                 [i \in DOMAIN fb.back_dr |->
                     FDiv(fb.dtype, fb.back_dr[i], fb.back_dr[Len(fb.back_dr)])],
                        !.pc = "return"]
    /\ UNCHANGED <<dr, dbEnv, feedEnv, database, datafeed, coverage, cache, th>>

\* line 22
FbReturn ==
    /\ fb.pc = "return"
    /\ fb' = [fb EXCEPT !.pc = "done", !.status = "returned",
                        !.result = <<fb.front_dr, fb.back_dr>>]
    /\ UNCHANGED <<dr, dbEnv, feedEnv, database, datafeed, coverage, cache, th>>

-----------------------------------------------------------------------------
(* Actions: query_history_uni *)

\* lines 34-45: the call is made, the collaborators are fetched and, under
\* 'auto', the lru_cache wrapper of _auto_cache looks its arguments up
Call(p, req, cut) ==
    /\ th[p].pc = "idle"
    /\ LET df == get_datafeed
           db == get_database
           f0 == [IdleFrame EXCEPT !.caller = "uni", !.req = req,
                                   !.arg_cut = cut, !.cut = cut,
                                   !.printed = df.printed \cup db.printed]
           key == AutoArgs(req)
           f1 == [f0 EXCEPT !.key = key]
       IN  /\ datafeed' = df.obj
           /\ database' = db.obj
           /\ th' = [th EXCEPT ![p] =
                  IF db.raised THEN Raise(f0, "ModuleNotFoundError")
                  ELSE IF cut = CutStr("auto")
                       THEN IF CacheHit(key)
                            THEN AfterAuto([f1 EXCEPT !.hit = TRUE], cache[key])
                            ELSE [f1 EXCEPT !.pc = "ac_body"]
                  ELSE [f0 EXCEPT !.pc = "split"]]
    /\ UNCHANGED <<fb, dr, dbEnv, feedEnv, coverage, cache>>

\* a call of _auto_cache(symbol, exchange, interval) itself: the wrapper's lookup
AutoCacheCall(p, key) ==
    /\ th[p].pc = "idle"
    /\ LET f0 == [IdleFrame EXCEPT !.caller = "direct", !.key = key]
       IN  th' = [th EXCEPT ![p] =
                  IF CacheHit(key)
                  THEN AutoReturn([f0 EXCEPT !.hit = TRUE], cache[key])
                  ELSE [f0 EXCEPT !.pc = "ac_body"]]
    /\ UNCHANGED <<fb, dr, dbEnv, feedEnv, database, datafeed, coverage, cache>>

\* lines 12-19: the body of _auto_cache, run on a miss
AutoCacheBody(p) ==
    /\ th[p].pc = "ac_body"
    /\ LET f == th[p]
           db == get_database
           symbol == f.key[1]
           exchange == f.key[2]
           interval == f.key[3]
           op == OverviewDispatch(interval)
           f1 == [f EXCEPT !.printed = @ \cup db.printed]
           f2 == [f1 EXCEPT !.ov_calls = Append(@,
                     [symbol |-> symbol, exchange |-> exchange,
                      interval |-> interval, op |-> op])]
           ows == coverage[OverviewKey(symbol, exchange, interval)]
       IN  /\ database' = db.obj
           /\ th' = [th EXCEPT ![p] =
                  IF db.raised THEN Raise(f1, "ModuleNotFoundError")
                  ELSE IF op = "AssertionError"
                       THEN Raise(f2, "AssertionError: query_overview_uni")
                  ELSE [f2 EXCEPT !.pc = "ac_store",
                                  !.r = IF Len(ows) = 0 THEN None
                                        ELSE Some(ows[1].end - OneDay)]]
    /\ UNCHANGED <<fb, dr, dbEnv, feedEnv, datafeed, coverage, cache>>

\* the wrapper stores the result under the arguments and returns it
CacheStore(p) ==
    /\ th[p].pc = "ac_store"
    /\ cache' = CachePut(cache, th[p].key, th[p].r)
    /\ th' = [th EXCEPT ![p] = AutoReturn(th[p], th[p].r)]
    /\ UNCHANGED <<fb, dr, dbEnv, feedEnv, database, datafeed, coverage>>

\* lines 52-84
Split(p) ==
    /\ th[p].pc = "split"
    /\ LET f == th[p]
           s == SplitRange(f.req, f.cut)
       IN  th' = [th EXCEPT ![p] =
                  IF s.err # "" THEN Raise(f, s.err)
                  ELSE [f EXCEPT !.start_dt = s.start_dt, !.mid_dt = s.mid_dt,
                                 !.end_dt = s.end_dt, !.pc = "store"]]
    /\ UNCHANGED <<fb, dr, dbEnv, feedEnv, database, datafeed, coverage, cache>>

\* lines 86-93: the store's part
StoreQuery(p) ==
    /\ th[p].pc = "store"
    /\ LET f == th[p]
           q == SubRequest(f.req, f.start_dt, f.mid_dt)
           op == DbDispatch(q.interval)
       IN  IF IsNone(f.start_dt)
           THEN th' = [th EXCEPT ![p].pc = "feed"]
           ELSE IF op = "AssertionError"
           THEN th' = [th EXCEPT ![p] =
                    Raise([f EXCEPT !.db_calls =
                              Append(@, [op |-> op, req |-> q, o |-> << >>])],
                          "AssertionError: query_history_uni")]
           ELSE \E o \in RecSeqs :
                    th' = [th EXCEPT ![p] =
                        [f EXCEPT !.db_calls =
                                      Append(@, [op |-> op, req |-> q, o |-> o]),
                                  !.out = Extend(@, o),
                                  !.pc = "feed"]]
    /\ UNCHANGED <<fb, dr, dbEnv, feedEnv, database, datafeed, coverage, cache>>

\* lines 95-106: the feed's part, and the return
FeedQuery(p) ==
    /\ th[p].pc = "feed"
    /\ LET f == th[p]
           mid_dt == FeedLower(f.start_dt, f.mid_dt)
           q == SubRequest(f.req, mid_dt, f.end_dt)
           op == FeedDispatch(q.interval)
       IN  IF IsNone(f.end_dt)
           THEN th' = [th EXCEPT ![p] =
                    [f EXCEPT !.pc = "done", !.status = "returned",
                              !.result = f.out]]
           ELSE IF op = "AssertionError"
           THEN th' = [th EXCEPT ![p] =
                    Raise([f EXCEPT !.mid_dt = mid_dt,
                                    !.feed_calls =
                              Append(@, [op |-> op, req |-> q, o |-> << >>])],
                          "AssertionError: query_history_uni")]
           ELSE \E o \in FeedAnswers(datafeed) :
                    th' = [th EXCEPT ![p] =
                        [f EXCEPT !.mid_dt = mid_dt,
                                  !.feed_calls =
                                      Append(@, [op |-> op, req |-> q, o |-> o]),
                                  !.printed = @ \cup FeedOutput(datafeed, op),
                                  !.out = Extend(@, o),
                                  !.result = Extend(f.out, o),
                                  !.pc = "done", !.status = "returned"]]
    /\ UNCHANGED <<fb, dr, dbEnv, feedEnv, database, datafeed, coverage, cache>>

\* the caller has the result or the exception; the frame is gone
Finish(p) ==
    /\ th[p].pc = "done"
    /\ th' = [th EXCEPT ![p] = IdleFrame]
    /\ UNCHANGED <<fb, dr, dbEnv, feedEnv, database, datafeed, coverage, cache>>

\* the store gains, loses or extends the overview row of a key
CoverageChange(k, ows) ==
    /\ coverage[k] # ows
    /\ coverage' = [coverage EXCEPT ![k] = ows]
    /\ UNCHANGED <<fb, dr, dbEnv, feedEnv, database, datafeed, cache, th>>

-----------------------------------------------------------------------------
(* Spec: one thread calls query_history_uni with every cut but 'auto', in   *)
(* every environment                                                         *)

DbEnvs == {"driver", "sqlite_fallback", "no_module"}
FeedEnvs == {"module", "no_name", "no_module"}

Init ==
    /\ dbEnv \in DbEnvs
    /\ feedEnv \in FeedEnvs
    /\ database = "None"
    /\ datafeed = "None"
    /\ coverage = [k \in OverviewKeys |-> << >>]
    /\ cache = << >>
    /\ th = [p \in Threads |-> IdleFrame]
    /\ dr = IdleDr
    /\ fb = IdleFb

CallAny == \E req \in Requests, cut \in FixedCuts \cup ExplicitCuts \cup OffsetCuts :
               Call(1, req, cut)
SplitStep == Split(1)
StoreStep == StoreQuery(1)
FeedStep == FeedQuery(1)
FinishStep == Finish(1)

Next == CallAny \/ SplitStep \/ StoreStep \/ FeedStep \/ FinishStep

Spec == Init /\ [][Next]_vars

-----------------------------------------------------------------------------
(* What a call did, read off its frame *)

IsUni(p) == th[p].caller = "uni"
Returned(p) == IsUni(p) /\ th[p].pc = "done" /\ th[p].status = "returned"
Raised(p) == IsUni(p) /\ th[p].pc = "done" /\ th[p].status = "raised"

ReqStart(p) == Val(th[p].req.start)
ReqEnd(p) == Val(th[p].req.end)

\* the [start, end] of each query made, in the order made
RangesOf(calls) == [i \in 1..Len(calls) |-> <<calls[i].req.start, calls[i].req.end>>]
StoreRanges(p) == RangesOf(th[p].db_calls)
FeedRanges(p) == RangesOf(th[p].feed_calls)

\* the records each collaborator answered with
RECURSIVE RecordsOf(_)
RecordsOf(calls) ==
    IF calls = << >> THEN << >> ELSE Head(calls).o \o RecordsOf(Tail(calls))
StoreRecords(p) == RecordsOf(th[p].db_calls)
FeedRecords(p) == RecordsOf(th[p].feed_calls)

OneRange(a, b) == << <<Some(a), Some(b)>> >>

-----------------------------------------------------------------------------
(* C1 *)

IsExplicit(p) == IsUni(p) /\ th[p].arg_cut.type = "datetime"
Mid(p) == th[p].arg_cut.n

\* C1: a call that returns, made with a datetime cut mid on a request with
\* start < end, has queried the store once for [start, mid] and the feed once for
\* [mid + resolution, end] when start < mid < end; the feed alone for
\* [start, end] when mid = start; the store alone for [start, end] when mid = end.
C1_ExplicitSplit ==
    \A p \in Threads :
        (Returned(p) /\ IsExplicit(p) /\ ReqStart(p) < ReqEnd(p)) =>
            /\ (ReqStart(p) < Mid(p) /\ Mid(p) < ReqEnd(p)) =>
                   /\ StoreRanges(p) = OneRange(ReqStart(p), Mid(p))
                   /\ FeedRanges(p) = OneRange(Mid(p) + Resolution, ReqEnd(p))
                   /\ Val(th[p].feed_calls[1].req.start) > Mid(p)
            /\ Mid(p) = ReqStart(p) =>
                   /\ StoreRanges(p) = << >>
                   /\ FeedRanges(p) = OneRange(ReqStart(p), ReqEnd(p))
            /\ Mid(p) = ReqEnd(p) =>
                   /\ StoreRanges(p) = OneRange(ReqStart(p), ReqEnd(p))
                   /\ FeedRanges(p) = << >>

C1_Witness ==
    \E p \in Threads :
        /\ Returned(p) /\ IsExplicit(p)
        /\ ReqStart(p) < Mid(p) /\ Mid(p) < ReqEnd(p)
        /\ Len(th[p].db_calls) = 1 /\ Len(th[p].feed_calls) = 1

-----------------------------------------------------------------------------
(* C2 *)

IsOffset(p) == IsUni(p) /\ th[p].arg_cut.type = "timedelta"
Delta(p) == th[p].arg_cut.n

\* C2: a call that returns, made with a timedelta cut delta on a request with
\* start < end, has queried the feed alone for [start, end] when
\* delta >= end - start, and the store alone for [start, end] when delta <= 0.
C2_OffsetDegrades ==
    \A p \in Threads :
        (Returned(p) /\ IsOffset(p) /\ ReqStart(p) < ReqEnd(p)) =>
            /\ Delta(p) >= ReqEnd(p) - ReqStart(p) =>
                   /\ StoreRanges(p) = << >>
                   /\ FeedRanges(p) = OneRange(ReqStart(p), ReqEnd(p))
            /\ Delta(p) <= 0 =>
                   /\ StoreRanges(p) = OneRange(ReqStart(p), ReqEnd(p))
                   /\ FeedRanges(p) = << >>

-----------------------------------------------------------------------------
(* C6 *)

\* C6: the list a call returns is the store's records followed by the feed's
\* records, each as answered, and is as long as the two answers together.
C6_Concatenation ==
    \A p \in Threads :
        Returned(p) =>
            /\ th[p].result = StoreRecords(p) \o FeedRecords(p)
            /\ Len(th[p].result) = Len(StoreRecords(p)) + Len(FeedRecords(p))

C6_Witness ==
    \E p \in Threads :
        /\ Returned(p)
        /\ StoreRecords(p) = <<"r2">>
        /\ FeedRecords(p) = <<"r1">>
        /\ th[p].result = <<"r2", "r1">>

-----------------------------------------------------------------------------
(* C7 *)

InRange(r, a, b) ==
    /\ ~IsNone(r[1]) /\ ~IsNone(r[2])
    /\ a <= Val(r[1]) /\ Val(r[1]) <= b
    /\ a <= Val(r[2]) /\ Val(r[2]) <= b

Covers(r, t) == Val(r[1]) <= t /\ t <= Val(r[2])

\* C7: the ranges a returning call has queried partition [start, end]: every
\* bound is a timestamp of [start, end], no timestamp is in a store range and
\* in a feed range, and every timestamp of [start, end] is in one of them.
C7_Partition ==
    \A p \in Threads :
        Returned(p) =>
            LET sr == StoreRanges(p)
                fr == FeedRanges(p)
            IN  /\ \A i \in DOMAIN sr : InRange(sr[i], ReqStart(p), ReqEnd(p))
                /\ \A i \in DOMAIN fr : InRange(fr[i], ReqStart(p), ReqEnd(p))
                /\ \A t \in ReqStart(p)..ReqEnd(p) :
                       /\ ~(/\ \E i \in DOMAIN sr : Covers(sr[i], t)
                            /\ \E i \in DOMAIN fr : Covers(fr[i], t))
                       /\ \/ \E i \in DOMAIN sr : Covers(sr[i], t)
                          \/ \E i \in DOMAIN fr : Covers(fr[i], t)

-----------------------------------------------------------------------------
(* C9 *)

MidOutOfRange(p) == IsExplicit(p) /\ (Mid(p) < ReqStart(p) \/ Mid(p) > ReqEnd(p))

\* C9: a call made with a datetime cut outside [start, end] never queries the
\* store or the feed and never has a record; it ends by raising.
C9_MidOutOfRangeRaises ==
    \A p \in Threads :
        MidOutOfRange(p) =>
            /\ th[p].db_calls = << >> /\ th[p].feed_calls = << >>
            /\ th[p].out = << >> /\ th[p].result = << >>
            /\ th[p].status # "returned"
            /\ th[p].pc \notin {"store", "feed"}
            /\ th[p].pc = "done" => th[p].status = "raised"

C9_Witness ==
    \E p \in Threads :
        /\ MidOutOfRange(p) /\ Raised(p)
        /\ th[p].err = "AssertionError: mid_dt"

-----------------------------------------------------------------------------
(* C10 *)

FeedMissing == feedEnv # "module"
StoreMissing == dbEnv # "driver"

\* C10 as claimed: with the feed or the store missing a call is not aborted by
\* that, what the missing collaborator is asked for comes back empty with a
\* diagnostic, and the call returns the other collaborator's records.
C10_MissingCollaboratorEmpty ==
    \A p \in Threads :
        /\ (FeedMissing /\ IsUni(p)) =>
               /\ \A i \in DOMAIN th[p].feed_calls :
                      th[p].feed_calls[i].op # "AssertionError" =>
                          /\ th[p].feed_calls[i].o = << >>
                          /\ BaseFeedOutput(th[p].feed_calls[i].op) \subseteq th[p].printed
               /\ Returned(p) => th[p].result = StoreRecords(p)
        /\ (StoreMissing /\ IsUni(p)) =>
               /\ th[p].err # "ModuleNotFoundError"
               /\ \A i \in DOMAIN th[p].db_calls : th[p].db_calls[i].o = << >>
               /\ Returned(p) => th[p].result = FeedRecords(p)

\* C10 as amended: with the feed missing, what the feed is asked for comes back
\* empty with a diagnostic, a call that returns returns the store's records, and
\* a call that raises raises for the store's module or for an assertion; with
\* the store's driver missing the SQLite store answers in its place, and where
\* that is missing too the call raises ModuleNotFoundError before any query.
C10_MissingFeedEmpty ==
    \A p \in Threads :
        /\ (FeedMissing /\ IsUni(p)) =>
               /\ \A i \in DOMAIN th[p].feed_calls :
                      th[p].feed_calls[i].op # "AssertionError" =>
                          /\ th[p].feed_calls[i].o = << >>
                          /\ BaseFeedOutput(th[p].feed_calls[i].op) \subseteq th[p].printed
               /\ Returned(p) => th[p].result = StoreRecords(p)
               /\ Raised(p) =>
                      \/ th[p].err = "ModuleNotFoundError" /\ dbEnv = "no_module"
                      \/ th[p].err \in {"AssertionError: cut", "AssertionError: mid_dt",
                                        "AssertionError: query_history_uni"}
        /\ (dbEnv = "sqlite_fallback" /\ IsUni(p)) =>
               /\ database = "SqliteDatabase"
               /\ th[p].err # "ModuleNotFoundError"
        /\ (dbEnv = "no_module" /\ IsUni(p)) =>
               /\ Raised(p) /\ th[p].err = "ModuleNotFoundError"
               /\ th[p].db_calls = << >> /\ th[p].feed_calls = << >>

C10_Witness ==
    \E p \in Threads :
        /\ FeedMissing /\ Returned(p)
        /\ Len(th[p].feed_calls) = 1 /\ th[p].feed_calls[1].o = << >>
        /\ Len(th[p].db_calls) = 1 /\ th[p].db_calls[1].o # << >>
        /\ th[p].result = th[p].db_calls[1].o

-----------------------------------------------------------------------------
(* SpecAuto: one thread calls query_history_uni under 'auto' or with a      *)
(* datetime cut, and _auto_cache itself, while the store's overview changes  *)

AutoIntervals == {"Interval.TICK", "Interval.DAILY"}
AutoRequests ==
    {req \in Requests : req.interval \in AutoIntervals /\ req.dividend = "Dividend.NONE"}
AutoKeys == {<<s, e, i>> : s \in Symbols, e \in Exchanges, i \in AutoIntervals}
AutoCuts == {AutoCut} \cup {CutDatetime(t) : t \in Times}

\* overview ends a day after a timestamp inside, and one past, the request times
CovEnds == {OneDay + 1, OneDay + MaxT + 1}
CovRows == {<< >>} \cup {<<Overview(end)>> : end \in CovEnds}

InitAuto ==
    /\ dbEnv \in DbEnvs
    /\ feedEnv = "module"
    /\ database = "None"
    /\ datafeed = "None"
    /\ coverage = [k \in OverviewKeys |-> << >>]
    /\ cache = << >>
    /\ th = [p \in Threads |-> IdleFrame]
    /\ dr = IdleDr
    /\ fb = IdleFb

CallAuto == \E req \in AutoRequests, cut \in AutoCuts : Call(1, req, cut)
CallAutoCache == \E key \in AutoKeys : AutoCacheCall(1, key)
BodyStep == AutoCacheBody(1)
CacheStoreStep == CacheStore(1)
\* the overview is read in one step of a call, so with one thread a change
\* during a call is a change before or after it: changes come between calls
StoreChanges ==
    /\ th[1].pc = "idle"
    /\ \E key \in AutoKeys, ows \in CovRows :
           CoverageChange(OverviewKey(key[1], key[2], key[3]), ows)

NextAuto ==
    \/ CallAuto \/ CallAutoCache \/ BodyStep \/ CacheStoreStep
    \/ SplitStep \/ StoreStep \/ FeedStep \/ FinishStep
    \/ StoreChanges

SpecAuto == InitAuto /\ [][NextAuto]_vars

-----------------------------------------------------------------------------
(* C3, C4 *)

IsAuto(p) == IsUni(p) /\ th[p].arg_cut = AutoCut

\* the overview row the store holds for the request of p
ReqCoverage(p) ==
    coverage[OverviewKey(th[p].req.symbol, th[p].req.exchange, th[p].req.interval)]
HasCoverage(p) == Len(ReqCoverage(p)) = 1
\* the cut 'auto' is to find: a day before the end of that row
AutoMid(p) == ReqCoverage(p)[1].end - OneDay

\* C3: a call under 'auto' that found nothing cached asks the store for the
\* overview of its request's own symbol, exchange and interval, and where that
\* overview ends at E with start <= E - 1 day <= end the call has queried what a
\* datetime cut of E - 1 day queries.
C3_AutoAsExplicit ==
    \A p \in Threads :
        (IsAuto(p) /\ th[p].pc = "done" /\ ~th[p].hit) =>
            /\ \A i \in DOMAIN th[p].ov_calls :
                   /\ th[p].ov_calls[i].symbol = th[p].req.symbol
                   /\ th[p].ov_calls[i].exchange = th[p].req.exchange
                   /\ th[p].ov_calls[i].interval = th[p].req.interval
            /\ (/\ HasCoverage(p) /\ th[p].err # "ModuleNotFoundError"
                /\ ReqStart(p) <= AutoMid(p) /\ AutoMid(p) <= ReqEnd(p)) =>
                   LET s == SplitDatetime(th[p].req, CutDatetime(AutoMid(p)))
                   IN  /\ Returned(p)
                       /\ StoreRanges(p) =
                              IF IsNone(s.start_dt) THEN << >>
                              ELSE << <<s.start_dt, s.mid_dt>> >>
                       /\ FeedRanges(p) =
                              IF IsNone(s.end_dt) THEN << >>
                              ELSE << <<FeedLower(s.start_dt, s.mid_dt), s.end_dt>> >>

\* C4: a call under 'auto' whose store overview ends at E with E - 1 day outside
\* [start, end] returns: having queried the feed alone for [start, end] when
\* E - 1 day < start, the store alone for [start, end] when E - 1 day > end.
C4_AutoOutOfRangeDegrades ==
    \A p \in Threads :
        (/\ IsAuto(p) /\ th[p].pc = "done" /\ ~th[p].hit
         /\ HasCoverage(p) /\ th[p].err # "ModuleNotFoundError") =>
            /\ AutoMid(p) < ReqStart(p) =>
                   /\ Returned(p)
                   /\ StoreRanges(p) = << >>
                   /\ FeedRanges(p) = OneRange(ReqStart(p), ReqEnd(p))
            /\ AutoMid(p) > ReqEnd(p) =>
                   /\ Returned(p)
                   /\ StoreRanges(p) = OneRange(ReqStart(p), ReqEnd(p))
                   /\ FeedRanges(p) = << >>

-----------------------------------------------------------------------------
(* C5 *)

\* the arguments of the overview query p makes in this step, << >> if none
NewOverviewCall(p) ==
    IF Len(th'[p].ov_calls) = Len(th[p].ov_calls) + 1
    THEN LET c == th'[p].ov_calls[Len(th'[p].ov_calls)]
         IN  <<c.symbol, c.exchange, c.interval>>
    ELSE << >>

-----------------------------------------------------------------------------
(* SpecDr: make_timetags_back_dr on every input within the bounds: any      *)
(* timestamps, events ascending in time, one back factor an event            *)

Factors == {2, F32Exact + 1}
IsAscending(ts) == \A i \in 1..(Len(ts) - 1) : ts[i] <= ts[i + 1]
EventTables ==
    UNION {{tb \in [timestamp_dr : [1..m -> Times], back_dr : [1..m -> Factors]] :
               IsAscending(tb.timestamp_dr)} : m \in 0..MaxM}

InitDr ==
    /\ dbEnv = "driver"
    /\ feedEnv = "module"
    /\ database = "None"
    /\ datafeed = "None"
    /\ coverage = [k \in OverviewKeys |-> << >>]
    /\ cache = << >>
    /\ th = [p \in Threads |-> IdleFrame]
    /\ \E timetags \in SeqsUpTo(Times, MaxN), tb \in EventTables :
           dr = [IdleDr EXCEPT !.pc = "called", !.timetags = timetags,
                               !.timestamp_dr = tb.timestamp_dr,
                               !.back_dr = tb.back_dr]
    /\ fb = IdleFb

DrIterate == \E i \in 1..MaxN : DrIteration(i)

NextDr == DrBegin \/ DrIterate \/ DrJoin \/ DrReturn

SpecDr == InitDr /\ [][NextDr]_vars

-----------------------------------------------------------------------------
(* C8 *)

\* the events at or before t
EventsUpTo(t) == {k \in DOMAIN dr.timestamp_dr : dr.timestamp_dr[k] <= t}
\* the latest of them
LatestEvent(t) == CHOOSE k \in EventsUpTo(t) : \A j \in EventsUpTo(t) : j <= k
\* the back factor in effect at t, 1 before the first event
FactorAt(t) == IF EventsUpTo(t) = {} THEN 1 ELSE dr.back_dr[LatestEvent(t)]

\* C8 as claimed: the call returns one factor a timestamp, the back factor of
\* the latest event at or before the timestamp, 1 where there is none.
C8_LatestBackFactor ==
    dr.pc = "done" =>
        /\ Len(dr.result) = Len(dr.timetags)
        /\ \A i \in DOMAIN dr.timetags : dr.result[i] = FactorAt(dr.timetags[i])

\* C8 as amended: the call returns one float32 a timestamp, the back factor of
\* the latest event at or before the timestamp rounded to float32, 1 where
\* there is none.
C8_LatestBackFactorFloat32 ==
    dr.pc = "done" =>
        /\ Len(dr.result) = Len(dr.timetags)
        /\ \A i \in DOMAIN dr.timetags :
               dr.result[i] = ToFloat32(FactorAt(dr.timetags[i]))

\* a call with a timestamp before the first event, and one between two events
\* of different factors, the first of which float32 does not hold
C8_Witness ==
    /\ dr.pc = "done"
    /\ Len(dr.timestamp_dr) = 2
    /\ dr.back_dr[1] = F32Exact + 1 /\ dr.back_dr[2] = 2
    /\ \E i, j \in DOMAIN dr.timetags :
           /\ dr.timetags[i] < dr.timestamp_dr[1]
           /\ dr.result[i] = 1
           /\ dr.timestamp_dr[1] <= dr.timetags[j]
           /\ dr.timetags[j] < dr.timestamp_dr[2]
           /\ dr.result[j] = F32Exact

-----------------------------------------------------------------------------
(* SpecAll: one thread calls query_history_uni with every cut, 'auto' too,    *)
(* and _auto_cache itself, over a store whose overview rows are fixed and      *)
(* whose driver imports                                                       *)

AllCuts == FixedCuts \cup ExplicitCuts \cup OffsetCuts \cup {AutoCut}

InitAll ==
    /\ dbEnv = "driver"
    /\ feedEnv \in {"module", "no_name"}
    /\ database = "None"
    /\ datafeed = "None"
    /\ \E row \in CovRows : coverage = [k \in OverviewKeys |-> row]
    /\ cache = << >>
    /\ th = [p \in Threads |-> IdleFrame]
    /\ dr = IdleDr
    /\ fb = IdleFb

CallAll == \E req \in Requests, cut \in AllCuts : Call(1, req, cut)

NextAll ==
    \/ CallAll \/ CallAutoCache \/ BodyStep \/ CacheStoreStep
    \/ SplitStep \/ StoreStep \/ FeedStep \/ FinishStep

SpecAll == InitAll /\ [][NextAll]_vars

-----------------------------------------------------------------------------
(* C11 *)

\* the kind of a request, "" for one no dispatcher lists
KindOf(interval) ==
    IF interval = "Interval.TICK" THEN "tick"
    ELSE IF interval \in BarIntervals THEN "bar"
    ELSE IF interval = "ExtraInterval.Dividend" THEN "dividend"
    ELSE IF interval = "ExtraInterval.TradeDate" THEN "trade date"
    ELSE ""

\* the kind of data a store or feed operation answers with
OpKind(op) ==
    IF op \in {"load_tick_data", "query_tick_history"} THEN "tick"
    ELSE IF op \in {"load_bar_data", "query_bar_history"} THEN "bar"
    ELSE IF op \in {"load_dividend_data", "query_dividend_history"} THEN "dividend"
    ELSE IF op \in {"load_trade_date_data", "query_tradedate_history"}
         THEN "trade date"
    ELSE "no operation"

\* C11: under every cut a call for a request of none of the four kinds ends in
\* an exception and hands no records back, and every query a call for a request
\* of one of the four kinds makes goes to the store's or the feed's operation of
\* that kind.
C11_KindDispatch ==
    \A p \in Threads :
        IsUni(p) =>
            /\ KindOf(th[p].req.interval) = "" =>
                   /\ ~Returned(p)
                   /\ th[p].result = << >>
                   /\ th[p].pc = "done" => th[p].status = "raised"
                   /\ \A i \in DOMAIN th[p].db_calls : th[p].db_calls[i].o = << >>
                   /\ \A i \in DOMAIN th[p].feed_calls : th[p].feed_calls[i].o = << >>
            /\ KindOf(th[p].req.interval) # "" =>
                   /\ \A i \in DOMAIN th[p].db_calls :
                          OpKind(th[p].db_calls[i].op) = KindOf(th[p].req.interval)
                   /\ \A i \in DOMAIN th[p].feed_calls :
                          OpKind(th[p].feed_calls[i].op) = KindOf(th[p].req.interval)

\* a call for a request of no kind, turned down by the feed's dispatcher
C11_Witness ==
    \E p \in Threads :
        /\ Raised(p)
        /\ th[p].req.interval = "Interval.OTHER"
        /\ th[p].arg_cut = CutStr("datafeed")
        /\ th[p].err = "AssertionError: query_history_uni"
        /\ Len(th[p].feed_calls) = 1
        /\ th[p].feed_calls[1].op = "AssertionError"
        /\ th[p].result = << >>

-----------------------------------------------------------------------------
(* C12 *)

\* C12: a call under 'database' that got its collaborators makes one store
\* query, for [start, end], and no feed query; a call under 'datafeed' makes one
\* feed query, for [start, end] with its lower bound the request's start itself,
\* and no store query.
C12_FixedPolicies ==
    \A p \in Threads :
        (IsUni(p) /\ th[p].pc = "done" /\ th[p].err # "ModuleNotFoundError") =>
            /\ th[p].arg_cut = CutStr("database") =>
                   /\ StoreRanges(p) = OneRange(ReqStart(p), ReqEnd(p))
                   /\ FeedRanges(p) = << >>
            /\ th[p].arg_cut = CutStr("datafeed") =>
                   /\ FeedRanges(p) = OneRange(ReqStart(p), ReqEnd(p))
                   /\ th[p].feed_calls[1].req.start = th[p].req.start
                   /\ StoreRanges(p) = << >>

\* a call under 'datafeed' on a request with start < end, answered by the feed
C12_Witness ==
    \E p \in Threads :
        /\ Returned(p)
        /\ th[p].arg_cut = CutStr("datafeed")
        /\ ReqStart(p) < ReqEnd(p)
        /\ Len(th[p].feed_calls) = 1 /\ th[p].db_calls = << >>
        /\ th[p].result = <<"r1">>

-----------------------------------------------------------------------------
(* C13 *)

\* C13: a call under 'auto' that found nothing cached, over a store with no
\* overview row for its request, returns having made what a call under
\* 'datafeed' makes: one feed query for [start, end] and no store query.
C13_AutoNoCoverageFeedOnly ==
    \A p \in Threads :
        (/\ IsAuto(p) /\ th[p].pc = "done" /\ ~th[p].hit
         /\ ~HasCoverage(p) /\ th[p].err # "ModuleNotFoundError") =>
            /\ Returned(p)
            /\ StoreRanges(p) = << >>
            /\ FeedRanges(p) = OneRange(ReqStart(p), ReqEnd(p))

-----------------------------------------------------------------------------
(* C14 *)

\* C14: a call that returns, made with a timedelta cut delta with
\* 0 < delta < end - start, has queried the store once for [start, end - delta]
\* and the feed once for [end - delta + resolution, end].
C14_OffsetSplit ==
    \A p \in Threads :
        (/\ Returned(p) /\ IsOffset(p)
         /\ 0 < Delta(p) /\ Delta(p) < ReqEnd(p) - ReqStart(p)) =>
            /\ StoreRanges(p) = OneRange(ReqStart(p), ReqEnd(p) - Delta(p))
            /\ FeedRanges(p) = OneRange(ReqEnd(p) - Delta(p) + Resolution, ReqEnd(p))

C14_Witness ==
    \E p \in Threads :
        /\ Returned(p) /\ IsOffset(p)
        /\ 0 < Delta(p) /\ Delta(p) < ReqEnd(p) - ReqStart(p)
        /\ Len(th[p].db_calls) = 1 /\ Len(th[p].feed_calls) = 1
        /\ th[p].db_calls[1].req.end = Some(ReqEnd(p) - Delta(p))

-----------------------------------------------------------------------------
(* SpecFb: make_front_back_dr on every input within the bounds: a list, a    *)
(* float64 or float32 array or a tuple of up to MaxK ratios, each a small or  *)
(* a large power of two                                                       *)

MaxK == 3

\* the exponents of the ratios: 2^-1 and 2^1, and a pair near the ends of the
\* range of the element type
RatioExps(dtype) ==
    IF dtype = "float32" THEN {-100, -1, 1, 100} ELSE {-1000, -1, 1, 1000}

ArgTypes ==
    {[type |-> "list", dtype |-> ""], [type |-> "tuple", dtype |-> ""],
     [type |-> "ndarray", dtype |-> "float64"],
     [type |-> "ndarray", dtype |-> "float32"]}

InitFb ==
    /\ dbEnv = "driver"
    /\ feedEnv = "module"
    /\ database = "None"
    /\ datafeed = "None"
    /\ coverage = [k \in OverviewKeys |-> << >>]
    /\ cache = << >>
    /\ th = [p \in Threads |-> IdleFrame]
    /\ dr = IdleDr
    /\ \E a \in ArgTypes :
           \E es \in SeqsUpTo(RatioExps(a.dtype), MaxK) :
               fb = [IdleFb EXCEPT !.pc = "called", !.type = a.type,
                                   !.dtype = a.dtype,
                                   !.dr = [i \in DOMAIN es |-> Fin(es[i])]]

NextFb == FbConvert \/ FbBack \/ FbFront \/ FbReturn

SpecFb == InitFb /\ [][NextFb]_vars

-----------------------------------------------------------------------------
(* C15 *)

\* the exponent of r[1] * ... * r[i] as a real number
RECURSIVE SumExp(_)
SumExp(i) == IF i = 0 THEN 0 ELSE SumExp(i - 1) + fb.dr[i].e

RatioCount == Len(fb.dr)
Accepted == fb.pc = "done" /\ fb.type \in {"list", "ndarray"}
FrontFactors == fb.result[1]
BackFactors == fb.result[2]

\* the first running product outside the range of the element type, 0 if none
FirstOutOfRange(i) ==
    LET out == {j \in 1..i : \/ SumExp(j) > MaxExp(fb.dtype)
                             \/ SumExp(j) < MinExp(fb.dtype)}
    IN  IF out = {} THEN 0 ELSE CHOOSE j \in out : \A k \in out : j <= k

\* C15 as claimed: of n positive ratios the call returns n front and n back
\* factors, the i-th back factor the product of the first i ratios, the i-th
\* front factor that product over the product of all, the last front factor
\* exactly 1; of no ratio it returns two empty sequences.
C15_FrontBackFactors ==
    Accepted =>
        /\ fb.status = "returned"
        /\ Len(FrontFactors) = RatioCount /\ Len(BackFactors) = RatioCount
        /\ \A i \in 1..RatioCount :
               /\ BackFactors[i] = Fin(SumExp(i))
               /\ FrontFactors[i] = Fin(SumExp(i) - SumExp(RatioCount))
        /\ RatioCount > 0 => FrontFactors[RatioCount] = Fin(0)

\* C15 as amended: the i-th back factor is the product of the first i ratios
\* while the running product stays in the range of the float type, an infinity
\* from the first product past the range on and a zero from the first product
\* under it on; the i-th front factor is the floating-point quotient of the i-th
\* back factor by the last; the last front factor is exactly 1 when the last
\* back factor is finite and not zero, and a NaN when it is not.
C15_FrontBackFactorsFloat ==
    Accepted =>
        /\ fb.status = "returned"
        /\ Len(FrontFactors) = RatioCount /\ Len(BackFactors) = RatioCount
        /\ \A i \in 1..RatioCount :
               LET j == FirstOutOfRange(i)
                   q == SumExp(i) - SumExp(RatioCount)
                   last == BackFactors[RatioCount]
               IN  /\ BackFactors[i] =
                          IF j = 0 THEN Fin(SumExp(i))
                          ELSE IF SumExp(j) > MaxExp(fb.dtype) THEN Inf ELSE Zero
                   /\ FrontFactors[i] =
                          IF last.k = "fin"
                          THEN IF q > MaxExp(fb.dtype) THEN Inf
                               ELSE IF q < MinExp(fb.dtype) THEN Zero ELSE Fin(q)
                          ELSE IF BackFactors[i].k # "fin" THEN NaN
                          ELSE IF last.k = "inf" THEN Zero ELSE Inf
        /\ RatioCount > 0 =>
               FrontFactors[RatioCount] =
                   IF BackFactors[RatioCount].k = "fin" THEN Fin(0) ELSE NaN

\* a call on two ratios of a list whose product is past the range of float64
C15_Witness ==
    /\ Accepted /\ fb.type = "list" /\ RatioCount = 2
    /\ SumExp(1) <= MaxExp(fb.dtype) /\ SumExp(2) > MaxExp(fb.dtype)
    /\ BackFactors = <<fb.dr[1], Inf>>
    /\ FrontFactors = <<Zero, NaN>>

-----------------------------------------------------------------------------
(* C16 *)

Written(list, i) == i \in DOMAIN list /\ ~IsNone(list[i])

\* C16: whatever the order the iterations of the prange run in, no step changes
\* the timestamps or the event arrays, an element once written is never written
\* again, and every element written is the float32 of the back factor in effect
\* at its own timestamp, whichever elements were written before it.
C16_OrderIndependent ==
    [][/\ dr'.timetags = dr.timetags
       /\ dr'.timestamp_dr = dr.timestamp_dr
       /\ dr'.back_dr = dr.back_dr
       /\ \A i \in DOMAIN dr.dr_list :
              Written(dr.dr_list, i) =>
                  Written(dr'.dr_list, i) /\ dr'.dr_list[i] = dr.dr_list[i]
       /\ \A i \in DOMAIN dr'.dr_list :
              Written(dr'.dr_list, i) =>
                  Val(dr'.dr_list[i]) = ToFloat32(FactorAt(dr.timetags[i]))]_vars

\* the second timestamp done before the first, after an event the first is
\* before
C16_Witness ==
    /\ dr.pc = "prange"
    /\ Len(dr.timetags) = 2
    /\ ~Written(dr.dr_list, 1) /\ Written(dr.dr_list, 2)
    /\ dr.timetags[1] < dr.timestamp_dr[1]
    /\ dr.timestamp_dr[1] <= dr.timetags[2]
    /\ Val(dr.dr_list[2]) # 1

-----------------------------------------------------------------------------
(* C17 *)

\* the calls p has made to the store and the feed: overview and history queries
CollaboratorCalls(p) ==
    Len(th[p].ov_calls) + Len(th[p].db_calls) + Len(th[p].feed_calls)

-----------------------------------------------------------------------------
(* SpecRace: the threads call _auto_cache at once while the store's overview *)
(* changes; between a thread's lookup, its overview query and its store any  *)
(* step of another thread may come                                           *)

InitRace ==
    /\ dbEnv = "driver"
    /\ feedEnv = "module"
    /\ database = "None"
    /\ datafeed = "None"
    /\ coverage = [k \in OverviewKeys |-> << >>]
    /\ cache = << >>
    /\ th = [p \in Threads |-> IdleFrame]
    /\ dr = IdleDr
    /\ fb = IdleFb

RaceCall == \E p \in Threads, key \in AutoKeys : AutoCacheCall(p, key)
RaceBody == \E p \in Threads : AutoCacheBody(p)
RaceStore == \E p \in Threads : CacheStore(p)
RaceFinish == \E p \in Threads : Finish(p)
RaceCoverage ==
    \E key \in AutoKeys, ows \in CovRows :
        CoverageChange(OverviewKey(key[1], key[2], key[3]), ows)

NextRace == RaceCall \/ RaceBody \/ RaceStore \/ RaceFinish \/ RaceCoverage

SpecRace == InitRace /\ [][NextRace]_vars

-----------------------------------------------------------------------------
(* C18 *)

\* p stores its result in this step
Stores(p) == th[p].pc = "ac_store" /\ th'[p].pc # "ac_store"
\* p starts a call for key k in this step
Starts(p, k) == th[p].pc = "idle" /\ th'[p].pc # "idle" /\ th'[p].key = k

-----------------------------------------------------------------------------
(* C19 *)

-----------------------------------------------------------------------------
(* C20 *)

\* the queries p has made of the store and the feed
SubQueries(p) ==
    {th[p].db_calls[i].req : i \in DOMAIN th[p].db_calls}
        \cup {th[p].feed_calls[i].req : i \in DOMAIN th[p].feed_calls}

\* C20: every query a call makes of the store or the feed has the symbol, the
\* exchange, the interval and the dividend mode of the call's request, and no
\* step of a call changes the request it was called with.
C20_SubQueryFrame ==
    [][\A p \in Threads :
           /\ \A q \in SubQueries(p)' :
                  /\ q.symbol = th'[p].req.symbol
                  /\ q.exchange = th'[p].req.exchange
                  /\ q.interval = th'[p].req.interval
                  /\ q.dividend = th'[p].req.dividend
           /\ (IsUni(p) /\ th[p].pc # "done") => th'[p].req = th[p].req]_vars

\* a call for back-adjusted dividend events that has asked the store and the
\* feed
C20_Witness ==
    \E p \in Threads :
        /\ Returned(p)
        /\ th[p].req.interval = "ExtraInterval.Dividend"
        /\ th[p].req.dividend = "Dividend.BACK"
        /\ Len(th[p].db_calls) = 1 /\ Len(th[p].feed_calls) = 1
        /\ th[p].db_calls[1].req.dividend = "Dividend.BACK"
        /\ th[p].feed_calls[1].req.dividend = "Dividend.BACK"
        /\ th[p].db_calls[1].req.end # th[p].req.end

====
